---- MODULE Spec2Model ----
(***************************************************************************)
(* A model of sysohub: the provisioning script scripts/sysohub.py (setup,  *)
(* update, purge and the five installers) and the dashboard process        *)
(* templates/flask_app.py (MQTT connector, telemetry store, HTTP index).   *)
(*                                                                         *)
(* Spec      the provisioning script run against one machine               *)
(* DashSpec  the dashboard process: main thread, MQTT thread, HTTP request *)
(***************************************************************************)
EXTENDS Integers, Sequences, FiniteSets, TLC

(***************************************************************************)
(* Bounds of the model.                                                    *)
(***************************************************************************)
\* Telemetry messages delivered to on_message in one behaviour.
MaxMsgs == 55
\* Messages that deviate from the regular {"timestamp": n, "temperature": n}.
MaxOdd == 1

(***************************************************************************)
(* Program constants of templates/flask_app.py.                            *)
(***************************************************************************)
MAX_POINTS == 50
retries == 5
initial_backoff == 1

\* One more name taken for a metric.
Recognized_Plus == {"temperature", "distance", "pH", "ORP", "TDS", "EC", "humidity"}

\* The metric names on_message recognises (flask_app.py line 57).
Recognized == {"temperature", "distance", "pH", "ORP", "TDS", "EC"}

VARIABLES
    \* ---- templates/flask_app.py ----
    data_store,     \* the module-level dict: key -> list of points
    data_lock,      \* holder of the Lock: "free", "mqtt" or "http"
    mqtt_client,    \* module-level result of connect_mqtt_with_retry: "unset", "client", "None"
    conn,           \* frame of connect_mqtt_with_retry while it runs
    mainPc,         \* main thread: "connecting", "main", "serving"
    mqttPc,         \* paho network thread / on_message position
    msg,            \* locals of on_message: payload items, timestamp, loop index
    httpPc,         \* one HTTP request for '/': "idle", "wait", "locked", "copied", "render"
    latest_data,    \* local of index() inside the with block
    emitted,        \* what the last sio.emit call was handed
    nmsgs,          \* messages delivered to on_message so far
    nodd,           \* how many of them were not the regular message
    arrived         \* history: per key, every point appended, in order

dashVars == <<data_store, data_lock, mqtt_client, conn, mainPc, mqttPc, msg,
              httpPc, latest_data, emitted, nmsgs, nodd, arrived>>

VARIABLES
    \* ---- scripts/sysohub.py and the machine it provisions ----
    os,             \* the machine: files, packages, services, settings
    run,            \* the running operation: position, mode, loaded config, locals
    log,            \* the shell commands issued by the current operation, in order
    mat,            \* the last fingerprint comparison and what came of it
    lastSvc,        \* the last service step: what was found and what was issued
    changedNow,     \* destinations found changed by the current operation
    dev             \* deviations so far: failed commands, declined prompts, outside changes

convVars == <<os, run, log, mat, lastSvc, changedNow, dev>>

vars == <<dashVars, convVars>>

(***************************************************************************)
(* scripts/sysohub.py: the machine                                         *)
(***************************************************************************)
\* Runs of setup / update in one behaviour.
MaxRuns == 2
\* Things that go other than planned in one behaviour: a command that
\* fails, a prompt the operator declines, an archive that is not the
\* expected one, a change made to the machine from outside between runs.
MaxDeviations == 1

Services == {"hostapd", "dnsmasq", "avahi-daemon", "mosquitto", "victoria-metrics",
             "nodered", "sysohub-dashboard"}

\* setup_wifi_ap: packages (line 89), services (99), configs (104-108).
WifiPackages == <<"hostapd", "dnsmasq", "avahi-daemon">>
WifiServices == <<"hostapd", "dnsmasq", "avahi-daemon">>
WifiConfigs == << <<"dhcpcd.conf.j2", "/etc/dhcpcd.conf">>,
                  <<"hostapd.conf.j2", "/etc/hostapd/hostapd.conf">>,
                  <<"dnsmasq.conf.j2", "/etc/dnsmasq.conf">> >>

default_hostapd == "/etc/default/hostapd"
mosquitto_conf == "/etc/mosquitto/mosquitto.conf"
passwd_file == "/etc/mosquitto/passwd"
vm_binary == "/usr/local/bin/victoria-metrics"
prod_binary == "/usr/local/bin/victoria-metrics-prod"
vm_other == "/usr/local/bin/(other archive member)"
vm_tar == "/tmp/vm.tar.gz"
vm_yml == "/etc/victoria-metrics.yml"
vm_service == "/etc/systemd/system/victoria-metrics.service"
nodered_service == "/lib/systemd/system/nodered.service"
flows_file == "~/.node-red/flows.json"
dashboard_file == "~/sysohub/flask_app.py"
index_html == "~/sysohub/static/index.html"
dashboard_service == "/etc/systemd/system/sysohub-dashboard.service"
sysohub_script == "~/sysohub/scripts/sysohub.py"
CONFIG_PATH == "~/sysohub/config/config.yml"

Paths == {"/etc/dhcpcd.conf", "/etc/hostapd/hostapd.conf", "/etc/dnsmasq.conf",
          default_hostapd, mosquitto_conf, passwd_file, vm_binary, prod_binary, vm_other,
          vm_tar, vm_yml, vm_service, nodered_service, flows_file, dashboard_file,
          index_html, dashboard_service, sysohub_script, CONFIG_PATH}

\* The files each subsystem's converge step compares and writes.
SubFiles(sub) ==
    CASE sub = "wifi"      -> {"/etc/dhcpcd.conf", "/etc/hostapd/hostapd.conf",
                               "/etc/dnsmasq.conf", default_hostapd}
      [] sub = "mosquitto" -> {mosquitto_conf, passwd_file}
      [] sub = "vm"        -> {vm_yml, vm_service}
      [] sub = "nodered"   -> {nodered_service}
      [] OTHER             -> {dashboard_file, dashboard_service}

SubOf(service) ==
    CASE service \in {"hostapd", "dnsmasq", "avahi-daemon"} -> "wifi"
      [] service = "mosquitto"                               -> "mosquitto"
      [] service = "victoria-metrics"                        -> "vm"
      [] service = "nodered"                                 -> "nodered"
      [] OTHER                                               -> "dashboard"

\* File content: which text it is (a template or an inline string), the
\* configuration it was rendered from, whether a newline was added behind
\* it (echo), whether mosquitto_passwd -U rewrote it.
Text(id, ctx) == [id |-> id, ctx |-> ctx, nl |-> FALSE, hashed |-> FALSE]
NoContent == Text("", "")
Absent == [exists |-> FALSE, content |-> NoContent, owner |-> "", mode |-> ""]
NewFile(content, owner, mode) ==
    [exists |-> TRUE, content |-> content, owner |-> owner, mode |-> mode]

\* hashlib.sha256(bytes).hexdigest(): equal digests for equal bytes only.
Sha256(content) == [none |-> FALSE, of |-> content]

\* file_hash's value for a path that does not exist.
None == [none |-> TRUE, of |-> NoContent]

\* file_hash (50-57)
file_hash(files, path) ==
    IF ~files[path].exists THEN None ELSE Sha256(files[path].content)

\* render_template (66-72): the text of the template for this configuration.
\* templates/flask_app.py holds no placeholder: its text is the same for
\* every configuration.
Render(template, cfg) ==
    IF template = "flask_app.py" THEN Text(template, "-") ELSE Text(template, cfg)

\* The machine before the first run: the checkout of the repository under
\* the user's home (script, config.yml, static/index.html), nothing
\* installed, no managed file written, no managed service known.
FreshMachine ==
    [files |-> [p \in Paths |->
                  CASE p = sysohub_script -> NewFile(Text("sysohub.py", "-"), "root", "644")
                    [] p = CONFIG_PATH    -> NewFile(Text("config.yml", "A"), "user", "644")
                    [] p = index_html     -> NewFile(Text("index.html", "tojson(pretty=true)"),
                                                     "user", "644")
                    [] OTHER              -> Absent],
     pkgs |-> {},
     svc |-> [s \in Services |-> [enabled |-> FALSE, running |-> FALSE]],
     hostname |-> "raspberrypi",
     ipfwd |-> FALSE,
     nodered |-> FALSE,
     vmuser |-> FALSE,
     hosts |-> TRUE,
     bak |-> {}]

NoMat == [called |-> FALSE, dest |-> "", rendered |-> NoContent, before |-> Absent,
          after |-> Absent, result |-> "", issued |-> << >>]
NoSvc == [svc |-> "", running |-> FALSE, changed |-> FALSE, cmd |-> ""]
\* No command has raised.
NoFault == [op |-> "", a |-> ""]
NoRun == [pc |-> "idle", mode |-> "", cfg |-> "", i |-> 0, changed |-> FALSE, n |-> 0,
          dev0 |-> 0, repeat |-> FALSE, fault |-> NoFault]

ConvInit ==
    /\ os = FreshMachine
    /\ run = NoRun
    /\ log = << >>
    /\ mat = NoMat
    /\ lastSvc = NoSvc
    /\ changedNow = {}
    /\ dev = 0

(***************************************************************************)
(* run_command (35-39) and the commands it is given                        *)
(***************************************************************************)
\* A shell command: fatal when run_command raises on its failure (check
\* True and ignore_errors False), not fatal with ignore_errors=True or
\* check=False.  py marks a step Python does itself (open/write,
\* os.makedirs, an os.path.exists test that raises).
Sh(op, a, b) == [op |-> op, a |-> a, b |-> b, c |-> NoContent, fatal |-> TRUE, py |-> FALSE]

\* ignore_errors and check=False without effect: every failure raises.
ShIgn_Fatal(op, a, b) ==
    [op |-> op, a |-> a, b |-> b, c |-> NoContent, fatal |-> TRUE, py |-> FALSE]

ShIgn(op, a, b) == [op |-> op, a |-> a, b |-> b, c |-> NoContent, fatal |-> FALSE, py |-> FALSE]
ShC(op, a, c) == [op |-> op, a |-> a, b |-> "", c |-> c, fatal |-> TRUE, py |-> FALSE]
Py(op, a, c) == [op |-> op, a |-> a, b |-> "", c |-> c, fatal |-> TRUE, py |-> TRUE]

\* What the tar archive puts into /usr/local/bin.
Extracted(files) ==
    LET kind == files[vm_tar].content.ctx
        bin == NewFile(Text("victoria-metrics", "v1.115.0"), "root", "755")
    IN  CASE kind = "prod"  -> [files EXCEPT ![prod_binary] = bin]
          [] kind = "plain" -> [files EXCEPT ![vm_binary] = bin]
          [] OTHER          -> [files EXCEPT ![vm_other] = bin]

\* The effect of a command that succeeds, on the part of the machine the
\* script reads back.  apt install is taken to add the package only: a
\* service is enabled and started by the systemctl commands of the script.
\* mkdir, daemon-reload, npm install, apt upgrade and the commands on
\* directories leave that part as it is.
Exec(o, c) ==
    CASE c.op = "apt install"  -> [o EXCEPT !.pkgs = @ \cup {c.a}]
      [] c.op = "stop"         -> [o EXCEPT !.svc[c.a].running = FALSE]
      [] c.op = "start"        -> [o EXCEPT !.svc[c.a].running = TRUE]
      [] c.op = "restart"      -> [o EXCEPT !.svc[c.a].running = TRUE]
      [] c.op = "enable"       -> [o EXCEPT !.svc[c.a].enabled = TRUE]
      [] c.op = "disable"      -> [o EXCEPT !.svc[c.a].enabled = FALSE]
      [] c.op = "mv"           -> [o EXCEPT !.files[c.a] = NewFile(c.c, "root", "umask")]
      [] c.op = "rename"       -> [o EXCEPT !.files[c.b] = o.files[c.a],
                                            !.files[c.a] = Absent]
      [] c.op = "chown"        -> IF o.files[c.a].exists
                                  THEN [o EXCEPT !.files[c.a].owner = c.b] ELSE o
      [] c.op = "chmod"        -> IF o.files[c.a].exists
                                  THEN [o EXCEPT !.files[c.a].mode = c.b] ELSE o
      [] c.op = "tee"          -> [o EXCEPT !.files[c.a] =
                                      IF @.exists
                                      THEN [@ EXCEPT !.content = [c.c EXCEPT !.nl = TRUE]]
                                      ELSE NewFile([c.c EXCEPT !.nl = TRUE], "root", "644")]
      [] c.op = "mosquitto_passwd -U" ->
                                  [o EXCEPT !.files[c.a].content.hashed = TRUE]
      [] c.op = "rm"           -> [o EXCEPT !.files = [p \in Paths |->
                                                 IF p \in {c.a, c.b} THEN Absent ELSE o.files[p]]]
      [] c.op = "rm node-red"  -> [o EXCEPT !.nodered = FALSE, !.files[flows_file] = Absent]
      [] c.op = "sysctl ip_forward" -> [o EXCEPT !.ipfwd = (c.b = "1")]
      [] c.op = "tee hostname" -> [o EXCEPT !.hostname = c.b]
      [] c.op = "useradd"      -> [o EXCEPT !.vmuser = TRUE]
      [] c.op = "userdel"      -> [o EXCEPT !.vmuser = FALSE]
      [] c.op \in {"apt remove", "apt purge"} -> [o EXCEPT !.pkgs = @ \ {c.a}]
      [] c.op = "move aside"   -> [o EXCEPT !.bak = @ \cup {c.a},
                                            !.files = [p \in Paths |->
                                                 IF p = c.a THEN Absent ELSE o.files[p]],
                                            !.hostname = IF c.a = "/etc/hostname" THEN "" ELSE @,
                                            !.hosts = IF c.a = "/etc/hosts" THEN FALSE ELSE @]
      [] c.op = "rm project"   -> [o EXCEPT !.files = [p \in Paths |->
                                                 IF p \in {sysohub_script, CONFIG_PATH,
                                                           dashboard_file, index_html}
                                                 THEN Absent ELSE o.files[p]]]
      [] c.op = "wget"         -> [o EXCEPT !.files[c.a] = NewFile(c.c, "root", "644")]
      [] c.op = "tar"          -> [o EXCEPT !.files = Extracted(@)]
      [] c.op = "node-red installer" ->
                                  [o EXCEPT !.nodered = TRUE,
                                            !.files[nodered_service] =
                                                NewFile(Text("nodered.service", "installer"),
                                                        "root", "644")]
      [] c.op = "write"        -> [o EXCEPT !.files[c.a] = NewFile(c.c, "root", "umask")]
      [] c.op = "reboot"       -> [o EXCEPT !.svc = [s \in Services |->
                                                        [enabled |-> o.svc[s].enabled,
                                                         running |-> o.svc[s].enabled]]]
      [] OTHER                 -> o

\* A step that fails by itself: the os.path.exists tests of
\* install_victoria_metrics (185-186, 193-194), and sed -i on /etc/hosts
\* (124) when that file is not there.
Raises(o, c) ==
    \/ c.op = "require" /\ ~o.files[c.a].exists
    \/ c.op = "sed hosts" /\ ~o.hosts

\* Run the commands from index i on; the one at index f fails.  A failing
\* fatal command raises and nothing after it is run; a failing command that
\* is not fatal has no effect and the next one is run.
RECURSIVE RunFrom(_, _, _, _)
RunFrom(o, cmds, i, f) ==
    IF i > Len(cmds) THEN [os |-> o, issued |-> << >>, ok |-> TRUE, fault |-> NoFault]
    ELSE LET c == cmds[i]
             fails == (i = f) \/ Raises(o, c)
             entry == IF c.py THEN << >> ELSE << [op |-> c.op, a |-> c.a] >>
         IN  IF fails /\ c.fatal
             THEN [os |-> o, issued |-> entry, ok |-> FALSE,
                   fault |-> [op |-> c.op, a |-> c.a]]
             ELSE LET rest == RunFrom(IF fails THEN o ELSE Exec(o, c), cmds, i + 1, f)
                  IN  [rest EXCEPT !.issued = entry \o @]

\* Which command may fail: none, or any shell command while a deviation is
\* left.
FaultChoices(cmds) ==
    {0} \cup (IF dev < MaxDeviations THEN {i \in 1..Len(cmds) : ~cmds[i].py} ELSE {})

\* prompt_overwrite (59-64) as called in update mode: asked only when the
\* condition holds, True only on the answer y.  Outside update mode the
\* prompt is not reached.
Answers(condition) ==
    IF run.mode = "update" /\ condition /\ dev < MaxDeviations THEN {TRUE, FALSE} ELSE {TRUE}

(***************************************************************************)
(* Steps of a run                                                          *)
(***************************************************************************)
Goto(pc) == [run EXCEPT !.pc = pc, !.i = 1]

\* The installers in another order: the metrics store before the broker.
After_Swapped(sub) ==
    CASE sub = "wifi"      -> "vm_bin"
      [] sub = "vm"        -> "mosq_pkg"
      [] sub = "mosquitto" -> "nr_cleanup"
      [] OTHER             -> "dash_pkgs"

\* setup 455-459 and update 471-475: where the script goes when an
\* installer returns.
After(sub) ==
    CASE sub = "wifi"      -> "mosq_pkg"
      [] sub = "mosquitto" -> "vm_bin"
      [] sub = "vm"        -> "nr_cleanup"
      [] OTHER             -> "dash_pkgs"

\* One step of the script: the commands are run in order, the one at index
\* f fails, a declined prompt and a failing command each count as a
\* deviation.  changedNow collects the managed files whose content or
\* existence this run has changed.
Managed == UNION {SubFiles(sub) : sub \in {"wifi", "mosquitto", "vm", "nodered", "dashboard"}}

\* The script goes on although a command has raised.
Outcome_Continue(r, next) == IF r.ok THEN next ELSE [next EXCEPT !.fault = r.fault]

\* run_command raises (38) and neither the installers, setup, update, purge
\* nor main catch: the script ends there.
Outcome(r, next) == IF r.ok THEN next ELSE [run EXCEPT !.pc = "failed", !.fault = r.fault]

Step(cmds, f, irregular, next) ==
    LET r == RunFrom(os, cmds, 1, f)
    IN  /\ dev' = dev + (IF f # 0 THEN 1 ELSE 0) + (IF irregular THEN 1 ELSE 0)
        /\ dev' <= MaxDeviations
        /\ os' = r.os
        /\ log' = log \o r.issued
        /\ run' = Outcome(r, next)
        /\ changedNow' = changedNow \cup
               {p \in Managed : \/ r.os.files[p].exists # os.files[p].exists
                                \/ r.os.files[p].content # os.files[p].content}
        /\ UNCHANGED dashVars

\* temp_hash != dest_hash (78) and the inline comparisons (116, 154, 221,
\* 370, 425).
Differs_SkipMissing(temp_hash, dest_hash) == dest_hash # None /\ temp_hash # dest_hash

Differs(temp_hash, dest_hash) == temp_hash # dest_hash

\* update_file_if_changed (74-85): the commands it issues.
UpdateCmds_Always(o, template, dest, cfg) ==
    << ShC("mv", dest, Render(template, cfg)), Sh("chown", dest, "root"),
       Sh("chmod", dest, "644") >>

UpdateCmds(o, template, dest, cfg) ==
    IF Differs(Sha256(Render(template, cfg)), file_hash(o.files, dest))
    THEN << ShC("mv", dest, Render(template, cfg)), Sh("chown", dest, "root"),
            Sh("chmod", dest, "644") >>
    ELSE << >>

\* update_file_if_changed (74-85): what one call saw, did and returned.
UpdateReport(template, dest, cfg, f) ==
    LET cmds == UpdateCmds(os, template, dest, cfg)
        r == RunFrom(os, cmds, 1, IF f <= Len(cmds) THEN f ELSE 0)
    IN  [called |-> TRUE, dest |-> dest, rendered |-> Render(template, cfg),
         before |-> os.files[dest], after |-> r.os.files[dest],
         result |-> IF ~r.ok THEN "raised" ELSE IF cmds # << >> THEN "true" ELSE "false",
         issued |-> r.issued]

\* A unit file written from an inline string (221-226, 370-375, 425-430).
UnitCmds(o, dest, content) ==
    IF Differs(file_hash(o.files, dest), Sha256(content))
    THEN << ShC("mv", dest, content), Sh("daemon-reload", "", "") >>
    ELSE << >>

\* The last lines of each installer: which command the service is given.
\* wifi 135-139, mosquitto 163-167, victoria-metrics 231-235,
\* nodered 380-385, dashboard 435-440.
ServiceDecision_KeepStopped(sub, running, flag) ==
    CASE sub \in {"wifi", "mosquitto"} -> IF running /\ ~flag THEN "none" ELSE "start"
      [] sub = "vm"                     -> IF running \/ ~flag THEN "none" ELSE "start"
      [] OTHER                          -> IF running THEN "restart" ELSE "start"

ServiceDecision(sub, running, flag) ==
    CASE sub \in {"wifi", "mosquitto"} -> IF running /\ ~flag THEN "none" ELSE "start"
      [] sub = "vm"                     -> IF running THEN "none" ELSE "start"
      [] OTHER                          -> IF running THEN "restart" ELSE "start"

ServiceCmds(sub, s, flag) ==
    (IF os.svc[s].enabled THEN << >> ELSE << ShIgn("enable", s, "") >>)
    \o (IF ServiceDecision(sub, os.svc[s].running, flag) = "none" THEN << >>
        ELSE << ShIgn(ServiceDecision(sub, os.svc[s].running, flag), s, "") >>)

ServiceStep(sub, s, flag, next) ==
    /\ \E f \in FaultChoices(ServiceCmds(sub, s, flag)) :
           Step(ServiceCmds(sub, s, flag), f, FALSE, next)
    /\ lastSvc' = [svc |-> s, running |-> os.svc[s].running,
                   changed |-> SubFiles(sub) \cap changedNow # {},
                   cmd |-> ServiceDecision(sub, os.svc[s].running, flag)]
    /\ mat' = mat

\* Steps that call neither update_file_if_changed nor a service decision.
Plain(cmds, next) ==
    /\ \E f \in FaultChoices(cmds) : Step(cmds, f, FALSE, next)
    /\ UNCHANGED <<mat, lastSvc>>

\* A step behind a prompt (update mode): declined, the installer returns
\* (or the loop continues) at the place given.
Prompted(condition, cmds, next, declined) ==
    /\ \E yes \in Answers(condition) :
          \E f \in (IF yes THEN FaultChoices(cmds) ELSE {0}) :
              Step(IF yes THEN cmds ELSE << >>, f, ~yes, IF yes THEN next ELSE declined)
    /\ UNCHANGED <<mat, lastSvc>>

\* sudo python3 sysohub.py setup | update | purge (main, 537-547)
StartRun(mode) ==
    /\ run.pc \in {"idle", "done", "failed"}
    /\ run.n < MaxRuns
    /\ os.files[sysohub_script].exists
    /\ run' = [pc |-> CASE mode = "setup"  -> "perms"
                       [] mode = "update" -> "load"
                       [] OTHER           -> "purge_svc",
               mode |-> mode, cfg |-> "",
               i |-> 1, changed |-> FALSE, n |-> run.n + 1, dev0 |-> dev,
               repeat |-> (run.pc = "done" /\ run.mode = mode /\ dev = run.dev0),
               fault |-> NoFault]
    /\ log' = << >>
    /\ changedNow' = {}
    /\ mat' = NoMat
    /\ lastSvc' = NoSvc
    /\ UNCHANGED <<os, dev, dashVars>>

\* setup (445-448)
Setup_Perms ==
    /\ run.pc = "perms"
    /\ Plain(<< Sh("chown", sysohub_script, "user"), Sh("chmod", sysohub_script, "755") >>,
             Goto("load"))

\* load_config (29-33), called at 451 and 466
LoadConfig ==
    /\ run.pc = "load"
    /\ run' = IF os.files[CONFIG_PATH].exists
              THEN [run EXCEPT !.pc = "upgrade", !.cfg = os.files[CONFIG_PATH].content.ctx]
              ELSE [run EXCEPT !.pc = "failed",
                                !.fault = [op |-> "load_config", a |-> CONFIG_PATH]]
    /\ UNCHANGED <<os, log, mat, lastSvc, changedNow, dev, dashVars>>

\* setup 453, update 468-469
UpgradePackages ==
    /\ run.pc = "upgrade"
    /\ Prompted(TRUE, << Sh("apt upgrade", "", "") >>, Goto("wifi_pkg"), Goto("wifi_pkg"))

(***************************************************************************)
(* setup_wifi_ap (87-139)                                                  *)
(***************************************************************************)
Loop(n, after) == IF run.i < n THEN [run EXCEPT !.i = @ + 1] ELSE after

\* 90-97
Wifi_Package ==
    /\ run.pc = "wifi_pkg"
    /\ LET pkg == WifiPackages[run.i]
           nxt == Loop(Len(WifiPackages), Goto("wifi_stop"))
       IN  Prompted(pkg \in os.pkgs,
                    IF pkg \in os.pkgs THEN << >> ELSE << Sh("apt install", pkg, "") >>,
                    nxt, nxt)

\* 100-102
Wifi_Stop ==
    /\ run.pc = "wifi_stop"
    /\ Plain(<< ShIgn("unmask", WifiServices[run.i], ""), ShIgn("stop", WifiServices[run.i], "") >>,
             Loop(Len(WifiServices), Goto("wifi_cfg")))

\* 109-112
Wifi_Config ==
    /\ run.pc = "wifi_cfg"
    /\ LET template == WifiConfigs[run.i][1]
           dest == WifiConfigs[run.i][2]
           cmds == UpdateCmds(os, template, dest, run.cfg)
           nxt == Loop(Len(WifiConfigs), Goto("wifi_default"))
       IN  \E f \in FaultChoices(cmds) :
              /\ Step(cmds, f, FALSE,
                      [nxt EXCEPT !.changed = (IF run.i = 1 THEN FALSE ELSE run.changed)
                                              \/ cmds # << >>])
              /\ mat' = UpdateReport(template, dest, run.cfg, f)
    /\ lastSvc' = lastSvc

\* 114-118
Wifi_Default ==
    /\ run.pc = "wifi_default"
    /\ Plain(IF Differs(file_hash(os.files, default_hostapd),
                        Sha256(Text("DAEMON_CONF", "-")))
             THEN << ShC("tee", default_hostapd, Text("DAEMON_CONF", "-")) >>
             ELSE << >>,
             [run EXCEPT !.pc = "wifi_hostname"])

\* 120-124
Wifi_Hostname ==
    /\ run.pc = "wifi_hostname"
    /\ Plain(IF os.hostname # run.cfg
             THEN << Sh("tee hostname", "/etc/hostname", run.cfg),
                     Sh("sed hosts", "/etc/hosts", run.cfg) >>
             ELSE << >>,
             [run EXCEPT !.pc = "wifi_ipfwd"])

\* 126-128
Wifi_IpForward ==
    /\ run.pc = "wifi_ipfwd"
    /\ Plain(IF ~os.ipfwd THEN << Sh("sysctl ip_forward", "", "1") >> ELSE << >>,
             [run EXCEPT !.pc = "wifi_svc", !.i = 1])

\* 130-139
Wifi_Service ==
    /\ run.pc = "wifi_svc"
    /\ ServiceStep("wifi", WifiServices[run.i], run.changed,
                   Loop(Len(WifiServices), Goto(After("wifi"))))

(***************************************************************************)
(* install_mosquitto (141-167)                                             *)
(***************************************************************************)
\* 143-149
Mosquitto_Package ==
    /\ run.pc = "mosq_pkg"
    /\ Prompted("mosquitto" \in os.pkgs,
                IF "mosquitto" \in os.pkgs THEN << >>
                ELSE << Sh("apt install", "mosquitto", "") >>,
                Goto("mosq_cfg"), Goto(After("mosquitto")))

\* 150
Mosquitto_Config ==
    /\ run.pc = "mosq_cfg"
    /\ LET cmds == UpdateCmds(os, "mosquitto.conf.j2", mosquitto_conf, run.cfg)
       IN  \E f \in FaultChoices(cmds) :
              /\ Step(cmds, f, FALSE,
                      [run EXCEPT !.pc = "mosq_passwd", !.changed = (cmds # << >>)])
              /\ mat' = UpdateReport("mosquitto.conf.j2", mosquitto_conf, run.cfg, f)
    /\ lastSvc' = lastSvc

\* 152-157
Mosquitto_Passwd ==
    /\ run.pc = "mosq_passwd"
    /\ Plain(IF Differs(file_hash(os.files, passwd_file), Sha256(Text("passwd", run.cfg)))
             THEN << ShC("tee", passwd_file, Text("passwd", run.cfg)),
                     Sh("mosquitto_passwd -U", passwd_file, "") >>
             ELSE << >>,
             [run EXCEPT !.pc = "mosq_svc"])

\* 159-167
Mosquitto_Service ==
    /\ run.pc = "mosq_svc"
    /\ ServiceStep("mosquitto", "mosquitto", run.changed, Goto(After("mosquitto")))

(***************************************************************************)
(* install_victoria_metrics (169-235)                                      *)
(***************************************************************************)
\* What the downloaded archive holds: the binary under its release name,
\* under the final name, or neither.
ArchiveKinds == {"prod", "plain", "other"}

\* The binary is never taken to be installed.
Executable_Never(file) == FALSE

\* os.access(vm_binary, os.X_OK)
Executable(file) == file.exists /\ file.mode = "755"

\* 172-188: prompt, then download and extraction unless an executable
\* binary is there.
Vm_Download ==
    /\ run.pc = "vm_bin"
    /\ \E kind \in ArchiveKinds :
          LET present == Executable(os.files[vm_binary])
              cmds == IF present THEN << >>
                      ELSE << ShIgn("rm", vm_binary, prod_binary),
                              Sh("mkdir", "/usr/local/bin", ""),
                              Sh("chmod dir", "/usr/local/bin", "755"),
                              ShC("wget", vm_tar, Text("vm.tar.gz", kind)),
                              Py("require", vm_tar, NoContent),
                              Sh("tar", vm_tar, "") >>
          IN  /\ present => kind = "prod"
              /\ \E yes \in Answers(os.files[vm_binary].exists) :
                    /\ ~yes => kind = "prod"
                    /\ \E f \in (IF yes THEN FaultChoices(cmds) ELSE {0}) :
                          Step(IF yes THEN cmds ELSE << >>, f, ~yes \/ kind # "prod",
                               IF ~yes THEN Goto(After("vm"))
                               ELSE IF present THEN Goto("vm_cfg") ELSE Goto("vm_rename"))
    /\ UNCHANGED <<mat, lastSvc>>

\* 189-196
Vm_Rename ==
    /\ run.pc = "vm_rename"
    /\ Plain((IF os.files[prod_binary].exists /\ ~os.files[vm_binary].exists
              THEN << Sh("rename", prod_binary, vm_binary) >> ELSE << >>)
             \o << Py("require", vm_binary, NoContent), Sh("chmod", vm_binary, "755"),
                   Sh("rm", vm_tar, "") >>,
             Goto("vm_cfg"))

\* 197: the value update_file_if_changed returns is not kept.
Vm_Config ==
    /\ run.pc = "vm_cfg"
    /\ LET cmds == UpdateCmds(os, "victoria_metrics.yml.j2", vm_yml, run.cfg)
       IN  \E f \in FaultChoices(cmds) :
              /\ Step(cmds, f, FALSE, Goto("vm_user"))
              /\ mat' = UpdateReport("victoria_metrics.yml.j2", vm_yml, run.cfg, f)
    /\ lastSvc' = lastSvc

\* 199-205
Vm_User ==
    /\ run.pc = "vm_user"
    /\ Plain((IF os.vmuser THEN << >> ELSE << ShIgn("useradd", "victoria-metrics", "") >>)
             \o << Sh("chown", vm_binary, "victoria-metrics"),
                   Sh("mkdir", "/var/lib/victoria-metrics", ""),
                   Sh("chown dir", "/var/lib/victoria-metrics", "victoria-metrics") >>,
             Goto("vm_unit"))

\* 207-226
Vm_Unit ==
    /\ run.pc = "vm_unit"
    /\ Plain(UnitCmds(os, vm_service, Text("vm.service", run.cfg)), Goto("vm_svc"))

\* 227-235
Vm_Service ==
    /\ run.pc = "vm_svc"
    /\ ServiceStep("vm", "victoria-metrics", FALSE, Goto(After("vm")))

(***************************************************************************)
(* install_node_red (237-385)                                              *)
(***************************************************************************)
\* 239-249
NodeRed_Cleanup ==
    /\ run.pc = "nr_cleanup"
    /\ Prompted(os.nodered,
                IF os.nodered
                THEN << ShIgn("stop", "nodered", ""), ShIgn("disable", "nodered", ""),
                        ShIgn("rm", nodered_service, ""), ShIgn("daemon-reload", "", ""),
                        ShIgn("rm node-red", "", "") >>
                ELSE << >>,
                Goto("nr_install"), Goto(After("nodered")))

\* 253-261
NodeRed_Install ==
    /\ run.pc = "nr_install"
    /\ Plain(<< Sh("node-red installer", "", ""), Sh("chown dir", "~/.node-red", "user"),
                Sh("chmod dir", "~/.node-red", "u+rw"), Sh("npm install", "", "") >>,
             Goto("nr_flows"))

\* 263-347
NodeRed_Flows ==
    /\ run.pc = "nr_flows"
    /\ Plain(<< Py("write", flows_file, Text("flows.json", run.cfg)),
                Sh("chown", flows_file, "user"), Sh("chmod", flows_file, "644") >>,
             Goto("nr_unit"))

\* 350-375
NodeRed_Unit ==
    /\ run.pc = "nr_unit"
    /\ Plain(UnitCmds(os, nodered_service, Text("nodered.service", "-")), Goto("nr_svc"))

\* 376-385
NodeRed_Service ==
    /\ run.pc = "nr_svc"
    /\ ServiceStep("nodered", "nodered", FALSE, Goto(After("nodered")))

(***************************************************************************)
(* install_dashboard (387-440)                                             *)
(***************************************************************************)
\* Where a run goes when install_dashboard returns: setup reboots (461),
\* update is over (476).
AfterDashboard == IF run.mode = "setup" THEN Goto("reboot") ELSE Goto("done")

\* 389-393
Dashboard_Packages ==
    /\ run.pc = "dash_pkgs"
    /\ Prompted("python3-flask" \in os.pkgs, << Sh("apt install", "python3-flask", "") >>,
                Goto("dash_file"), AfterDashboard)

\* 394-397
Dashboard_File ==
    /\ run.pc = "dash_file"
    /\ LET upd == UpdateCmds(os, "flask_app.py", dashboard_file, run.cfg)
           cmds == upd \o (IF upd # << >>
                           THEN << Sh("chown", dashboard_file, "user"),
                                   Sh("chmod", dashboard_file, "644") >>
                           ELSE << >>)
       IN  \E f \in FaultChoices(cmds) :
              /\ Step(cmds, f, FALSE, Goto("dash_index"))
              /\ mat' = UpdateReport("flask_app.py", dashboard_file, run.cfg, f)
    /\ lastSvc' = lastSvc

\* 398-410
Dashboard_Index ==
    /\ run.pc = "dash_index"
    /\ Plain(IF os.files[index_html].exists
                /\ os.files[index_html].content.ctx = "tojson(pretty=true)"
             THEN << ShC("mv", index_html, Text("index.html", "tojson | safe")),
                     Sh("chown", index_html, "user"), Sh("chmod", index_html, "644") >>
             ELSE << >>,
             Goto("dash_unit"))

\* 411-430
Dashboard_Unit ==
    /\ run.pc = "dash_unit"
    /\ Plain(UnitCmds(os, dashboard_service, Text("dashboard.service", "-")),
             Goto("dash_svc"))

\* 431-440
Dashboard_Service ==
    /\ run.pc = "dash_svc"
    /\ ServiceStep("dashboard", "sysohub-dashboard", FALSE, AfterDashboard)

\* setup 461: after the reboot the enabled services are running.
Reboot ==
    /\ run.pc = "reboot"
    /\ Plain(<< Sh("reboot", "", "") >>, Goto("done"))

(***************************************************************************)
(* purge (478-521)                                                         *)
(***************************************************************************)
\* 481
PurgeServices == <<"hostapd", "dnsmasq", "avahi-daemon", "mosquitto", "victoria-metrics",
                   "nodered", "sysohub-dashboard">>

\* 489-490
PurgePackages == <<"hostapd", "dnsmasq", "avahi-daemon", "mosquitto", "mosquitto-clients",
                   "nodejs", "npm", "python3-flask", "python3-socketio", "python3-paho-mqtt",
                   "python3-requests", "python3-eventlet", "python3-psutil">>

\* 503-506
PurgeConfigs == <<"/etc/dhcpcd.conf", "/etc/hostapd/hostapd.conf", "/etc/dnsmasq.conf",
                  "/etc/default/hostapd", "/etc/mosquitto/mosquitto.conf",
                  "/etc/mosquitto/passwd", "/etc/hostname", "/etc/hosts">>

\* /etc/systemd/system/{service}.service and /lib/systemd/system/{service}.service
EtcUnit(service) ==
    CASE service = "victoria-metrics"  -> vm_service
      [] service = "sysohub-dashboard" -> dashboard_service
      [] OTHER                         -> "/etc/systemd/system/(no such unit)"

LibUnit(service) ==
    IF service = "nodered" THEN nodered_service ELSE "/lib/systemd/system/(packaged unit)"

\* os.path.exists(file) for the files of 503-506
Exists(o, file) ==
    CASE file \in Paths         -> o.files[file].exists
      [] file = "/etc/hostname" -> o.hostname # ""
      [] OTHER                  -> o.hosts

\* 482-486
Purge_Service ==
    /\ run.pc = "purge_svc"
    /\ LET s == PurgeServices[run.i]
       IN  Plain(<< ShIgn("stop", s, ""), ShIgn("disable", s, ""), ShIgn("rm", EtcUnit(s), ""),
                    ShIgn("rm", LibUnit(s), "") >>,
                 Loop(Len(PurgeServices), Goto("purge_pkgs")))

\* 491-493
Purge_Package ==
    /\ run.pc = "purge_pkgs"
    /\ Plain(<< ShIgn("apt remove", PurgePackages[run.i], ""),
                ShIgn("apt purge", PurgePackages[run.i], "") >>,
             Loop(Len(PurgePackages), Goto("purge_artifacts")))

\* 496-500
Purge_Artifacts ==
    /\ run.pc = "purge_artifacts"
    /\ Plain(<< ShIgn("rm", vm_binary, vm_yml), ShIgn("userdel", "victoria-metrics", ""),
                ShIgn("rm node-red", "", "") >>,
             Goto("purge_cfg"))

\* 507-509
Purge_Config ==
    /\ run.pc = "purge_cfg"
    /\ Plain(IF Exists(os, PurgeConfigs[run.i])
             THEN << ShIgn("move aside", PurgeConfigs[run.i], "") >> ELSE << >>,
             Loop(Len(PurgeConfigs), Goto("purge_ipfwd")))

\* 512
Purge_IpForward ==
    /\ run.pc = "purge_ipfwd"
    /\ Plain(<< ShIgn("sysctl ip_forward", "", "0") >>, Goto("purge_project"))

\* 515-518
Purge_Project ==
    /\ run.pc = "purge_project"
    /\ Plain(<< ShIgn("rm project", "~/sysohub", ""), ShIgn("apt autoremove", "", "") >>,
             Goto("purge_reboot"))

\* 521
Purge_Reboot ==
    /\ run.pc = "purge_reboot"
    /\ Plain(<< Sh("reboot", "", "") >>, Goto("done"))

(***************************************************************************)
(* The machine between runs                                                *)
(***************************************************************************)
Between == run.pc \in {"idle", "done", "failed"} /\ 0 < run.n /\ run.n < MaxRuns

Outside(o) ==
    /\ Between
    /\ dev < MaxDeviations
    /\ dev' = dev + 1
    /\ os' = o
    /\ UNCHANGED <<run, log, mat, lastSvc, changedNow, dashVars>>

\* A running service stops.
Env_ServiceStops == \E s \in Services : os.svc[s].running /\ Outside([os EXCEPT !.svc[s].running = FALSE])

\* The operator edits config.yml, or removes it.
Env_ConfigChange ==
    /\ os.files[CONFIG_PATH].exists
    /\ \E f \in {NewFile(Text("config.yml", "B"), "user", "644"), Absent} :
          f # os.files[CONFIG_PATH] /\ Outside([os EXCEPT !.files[CONFIG_PATH] = f])

\* A managed file is edited by hand, or removed.
Env_FileChange ==
    \E p \in Managed : \E f \in {NewFile(Text("edited by hand", "-"), "root", "644"), Absent} :
        os.files[p].exists /\ Outside([os EXCEPT !.files[p] = f])

\* One step of the run in progress.
RunStep ==
    \/ Setup_Perms
    \/ LoadConfig
    \/ UpgradePackages
    \/ Wifi_Package
    \/ Wifi_Stop
    \/ Wifi_Config
    \/ Wifi_Default
    \/ Wifi_Hostname
    \/ Wifi_IpForward
    \/ Wifi_Service
    \/ Mosquitto_Package
    \/ Mosquitto_Config
    \/ Mosquitto_Passwd
    \/ Mosquitto_Service
    \/ Vm_Download
    \/ Vm_Rename
    \/ Vm_Config
    \/ Vm_User
    \/ Vm_Unit
    \/ Vm_Service
    \/ NodeRed_Cleanup
    \/ NodeRed_Install
    \/ NodeRed_Flows
    \/ NodeRed_Unit
    \/ NodeRed_Service
    \/ Dashboard_Packages
    \/ Dashboard_File
    \/ Dashboard_Index
    \/ Dashboard_Unit
    \/ Dashboard_Service
    \/ Reboot
    \/ Purge_Service
    \/ Purge_Package
    \/ Purge_Artifacts
    \/ Purge_Config
    \/ Purge_IpForward
    \/ Purge_Project
    \/ Purge_Reboot

Next ==
    \/ \E mode \in {"setup", "update", "purge"} : StartRun(mode)
    \/ RunStep
    \/ Env_ServiceStops
    \/ Env_ConfigChange
    \/ Env_FileChange

(***************************************************************************)
(* templates/flask_app.py: values                                          *)
(***************************************************************************)
\* A JSON value as it arrives: a number, a numeric string, or something
\* float() rejects (a non-numeric string, null, a list).
Num(n) == [t |-> "num", n |-> n]
Str(n) == [t |-> "str", n |-> n]
Bad == [t |-> "bad", n |-> 0]

\* float(value): the number for a number or a numeric string, an exception
\* (ValueError / TypeError) otherwise.
Float(v) == IF v.t \in {"num", "str"}
            THEN [ok |-> TRUE, val |-> v.n]
            ELSE [ok |-> FALSE, val |-> 0]

\* The MQTT payloads the model delivers; n is the arrival number.  "json" is
\* FALSE for bytes json.loads rejects.
Shapes == {"plain", "nots", "two", "ph", "unk", "str", "badlast", "garbage"}

Message(shape, n) ==
    CASE shape = "plain"   -> [json |-> TRUE,
                               items |-> << <<"timestamp", Num(n)>>, <<"temperature", Num(n)>> >>]
      [] shape = "nots"    -> [json |-> TRUE,
                               items |-> << <<"temperature", Num(n)>> >>]
      [] shape = "two"     -> [json |-> TRUE,
                               items |-> << <<"timestamp", Num(n)>>, <<"temperature", Num(n)>>,
                                            <<"pH", Num(n)>> >>]
      [] shape = "ph"      -> [json |-> TRUE,
                               items |-> << <<"timestamp", Num(n)>>, <<"pH", Num(n)>> >>]
      [] shape = "unk"     -> [json |-> TRUE,
                               items |-> << <<"humidity", Num(n)>>, <<"timestamp", Num(n)>>,
                                            <<"temperature", Num(n)>> >>]
      [] shape = "str"     -> [json |-> TRUE,
                               items |-> << <<"timestamp", Num(n)>>, <<"temperature", Str(n)>> >>]
      [] shape = "badlast" -> [json |-> TRUE,
                               items |-> << <<"timestamp", Num(n)>>, <<"pH", Num(n)>>,
                                            <<"temperature", Bad>> >>]
      [] OTHER             -> [json |-> FALSE, items |-> << >>]

\* payload.get("timestamp", 0)
RECURSIVE GetTimestamp(_, _)
GetTimestamp(items, i) ==
    IF i > Len(items) THEN 0
    ELSE IF items[i][1] = "timestamp" THEN items[i][2].n
    ELSE GetTimestamp(items, i + 1)

EmptyStore == [k \in {} |-> << >>]
NoMsg == [items |-> << >>, timestamp |-> 0, i |-> 0, before |-> EmptyStore]
NoFrame == [pc |-> "gone", attempt |-> 0, backoff |-> 0, slept |-> << >>, tries |-> 0,
            ret |-> "unset"]
NoEvent == [n |-> 0, data |-> << >>, store |-> EmptyStore, live |-> FALSE]

DashInit ==
    /\ data_store = EmptyStore
    /\ data_lock = "free"
    /\ mqtt_client = "unset"
    /\ conn = [pc |-> "try", attempt |-> 0, backoff |-> initial_backoff, slept |-> << >>,
               tries |-> 0, ret |-> "unset"]
    /\ mainPc = "connecting"
    /\ mqttPc = "off"
    /\ msg = NoMsg
    /\ httpPc = "idle"
    /\ latest_data = EmptyStore
    /\ emitted = NoEvent
    /\ nmsgs = 0
    /\ nodd = 0
    /\ arrived = [k \in Recognized |-> << >>]

(***************************************************************************)
(* connect_mqtt_with_retry (flask_app.py 74-96) and the module's main path *)
(***************************************************************************)
\* A backoff that grows by one second instead of doubling.
NextBackoff_Linear(b) == b + 1

\* backoff *= 2
NextBackoff(b) == b * 2

\* The except branch's test: attempt < retries - 1
MayRetry(attempt) == attempt < retries - 1

\* One pass of the try block: client.connect + client.loop_start either both
\* succeed (return client; the network thread is running) or raise.
Connect_Try ==
    /\ mainPc = "connecting"
    /\ conn.pc = "try"
    /\ \E ok \in BOOLEAN :
         IF ok
         THEN /\ conn' = [conn EXCEPT !.pc = "return", !.tries = @ + 1, !.ret = "client"]
              /\ mqttPc' = "connack"
         ELSE /\ conn' = [conn EXCEPT !.tries = @ + 1,
                                      !.pc = IF MayRetry(conn.attempt) THEN "sleep" ELSE "return",
                                      !.ret = IF MayRetry(conn.attempt) THEN "unset" ELSE "None"]
              /\ UNCHANGED mqttPc
    /\ UNCHANGED <<data_store, data_lock, mqtt_client, mainPc, msg, httpPc, latest_data,
                   emitted, nmsgs, nodd, arrived>>
    /\ UNCHANGED convVars

\* time.sleep(backoff); backoff *= 2; next iteration of the for loop.
Connect_Sleep ==
    /\ mainPc = "connecting"
    /\ conn.pc = "sleep"
    /\ conn' = [conn EXCEPT !.pc = "try",
                            !.slept = Append(@, conn.backoff),
                            !.backoff = NextBackoff(@),
                            !.attempt = @ + 1]
    /\ UNCHANGED <<data_store, data_lock, mqtt_client, mainPc, mqttPc, msg, httpPc,
                   latest_data, emitted, nmsgs, nodd, arrived>>
    /\ UNCHANGED convVars

\* mqtt_client = connect_mqtt_with_retry(): the function returns and its
\* frame is gone.
Connect_Return ==
    /\ mainPc = "connecting"
    /\ conn.pc = "return"
    /\ mqtt_client' = conn.ret
    /\ conn' = NoFrame
    /\ mainPc' = "main"
    /\ UNCHANGED <<data_store, data_lock, mqttPc, msg, httpPc, latest_data, emitted,
                   nmsgs, nodd, arrived>>
    /\ UNCHANGED convVars

\* A main block that gives up when there is no connection.
MainAfterConnect_Exit(client) == IF client = "None" THEN "exited" ELSE "serving"

\* What the __main__ block does with mqtt_client: with None it prints and
\* goes on to start the WSGI server all the same.
MainAfterConnect(client) == "serving"

Main_Serve ==
    /\ mainPc = "main"
    /\ mainPc' = MainAfterConnect(mqtt_client)
    /\ UNCHANGED <<data_store, data_lock, mqtt_client, conn, mqttPc, msg, httpPc,
                   latest_data, emitted, nmsgs, nodd, arrived>>
    /\ UNCHANGED convVars

\* on_connect (44-49): subscribe only on rc = 0.
OnConnect ==
    /\ mqttPc = "connack"
    /\ \E rc \in {0, 5} :
         mqttPc' = IF rc = 0 THEN "idle" ELSE "refused"
    /\ UNCHANGED <<data_store, data_lock, mqtt_client, conn, mainPc, msg, httpPc,
                   latest_data, emitted, nmsgs, nodd, arrived>>
    /\ UNCHANGED convVars

(***************************************************************************)
(* on_message (flask_app.py 51-71), run by the paho network thread         *)
(***************************************************************************)
\* data_store[key].append(point)
AppendPoint(buf, point) == Append(buf, point)

\* len(data_store[key]) > MAX_POINTS
NeedsEvict(buf) == Len(buf) > MAX_POINTS

\* pop() in place of pop(0): the newest point goes, not the oldest.
Evict_Newest(buf) == SubSeq(buf, 1, Len(buf) - 1)

\* data_store[key].pop(0)
Evict(buf) == Tail(buf)

\* if key not in data_store: data_store[key] = []
WithKey(store, key) == IF key \in DOMAIN store THEN store ELSE store @@ (key :> << >>)

\* The messages the model may still deliver: the regular one, and a
\* deviating one while fewer than MaxOdd were delivered.
Deliverable == IF nodd < MaxOdd THEN Shapes ELSE {"plain"}

\* A message arrives: json.loads and payload.get run before the lock is
\* asked for.  msg.before keeps the store as the message found it (only
\* this thread writes the store).  Bytes that are not JSON raise at once; the handler prints
\* and returns.
OnMessage_Begin ==
    /\ mqttPc = "idle"
    /\ nmsgs < MaxMsgs
    /\ \E shape \in Deliverable :
         LET m == Message(shape, nmsgs + 1) IN
         /\ nodd' = IF shape = "plain" THEN nodd ELSE nodd + 1
         /\ IF m.json
            THEN /\ msg' = [items |-> m.items, timestamp |-> GetTimestamp(m.items, 1), i |-> 1,
                             before |-> data_store]
                 /\ mqttPc' = "acquire"
            ELSE /\ msg' = NoMsg
                 /\ mqttPc' = "idle"
    /\ nmsgs' = nmsgs + 1
    /\ UNCHANGED <<data_store, data_lock, mqtt_client, conn, mainPc, httpPc, latest_data,
                   emitted, arrived>>
    /\ UNCHANGED convVars

\* A lock that is handed out whoever holds it.
Acquirable_Always(lock) == TRUE

\* threading.Lock: entering a with block waits until the lock is free.
Acquirable(lock) == lock = "free"

\* with data_lock: (entry)
OnMessage_Acquire ==
    /\ mqttPc = "acquire"
    /\ Acquirable(data_lock)
    /\ data_lock' = "mqtt"
    /\ mqttPc' = IF Len(msg.items) = 0 THEN "status" ELSE "loop"
    /\ UNCHANGED <<data_store, mqtt_client, conn, mainPc, msg, httpPc, latest_data,
                   emitted, nmsgs, nodd, arrived>>
    /\ UNCHANGED convVars

\* Where the handler goes after the item at index i is done.
AfterItem(i) == IF i >= Len(msg.items) THEN "status" ELSE "loop"

\* One iteration of the for loop up to the append.  float(value) raising
\* leaves the with block (the lock is released) and the except clause
\* prints; whatever was appended before stays.
OnMessage_Item ==
    /\ mqttPc = "loop"
    /\ LET key == msg.items[msg.i][1]
           value == msg.items[msg.i][2]
           f == Float(value)
           store1 == WithKey(data_store, key)
           point == [timestamp |-> msg.timestamp, value |-> f.val]
       IN IF key \notin Recognized
          THEN /\ msg' = [msg EXCEPT !.i = @ + 1]
               /\ mqttPc' = AfterItem(msg.i)
               /\ UNCHANGED <<data_store, data_lock, arrived>>
          ELSE IF ~f.ok
          THEN /\ data_store' = store1
               /\ data_lock' = "free"
               /\ mqttPc' = "idle"
               /\ msg' = NoMsg
               /\ UNCHANGED arrived
          ELSE /\ data_store' = [store1 EXCEPT ![key] = AppendPoint(@, point)]
               /\ arrived' = [arrived EXCEPT ![key] = Append(@, point)]
               /\ IF NeedsEvict(AppendPoint(store1[key], point))
                  THEN /\ mqttPc' = "pop"
                       /\ msg' = msg
                  ELSE /\ mqttPc' = AfterItem(msg.i)
                       /\ msg' = [msg EXCEPT !.i = @ + 1]
               /\ UNCHANGED data_lock
    /\ UNCHANGED <<mqtt_client, conn, mainPc, httpPc, latest_data, emitted, nmsgs, nodd>>
    /\ UNCHANGED convVars

\* if len(data_store[key]) > MAX_POINTS: data_store[key].pop(0)
OnMessage_Pop ==
    /\ mqttPc = "pop"
    /\ LET key == msg.items[msg.i][1] IN
       data_store' = [data_store EXCEPT ![key] = Evict(@)]
    /\ mqttPc' = AfterItem(msg.i)
    /\ msg' = [msg EXCEPT !.i = @ + 1]
    /\ UNCHANGED <<data_lock, mqtt_client, conn, mainPc, httpPc, latest_data, emitted,
                   nmsgs, nodd, arrived>>
    /\ UNCHANGED convVars

\* The holder of data_lock while the arguments of sio.emit are evaluated and
\* while sio.emit runs: both are inside the with block (lines 63-69 are
\* indented under line 55).
LockDuringEmit == "mqtt"

\* get_service_status() and get_system_stats() (one systemctl call per
\* service, one second of cpu_percent) are evaluated for the emit call.
OnMessage_Status ==
    /\ mqttPc = "status"
    /\ data_lock' = LockDuringEmit
    /\ mqttPc' = "emit"
    /\ UNCHANGED <<data_store, mqtt_client, conn, mainPc, msg, httpPc, latest_data,
                   emitted, nmsgs, nodd, arrived>>
    /\ UNCHANGED convVars

\* What the object handed to sio.emit under 'store' holds now.  Line 66
\* hands over data_store itself (live), not a copy of it: the event record
\* keeps the content at the hand-over in store.
Handed(e) == IF e.live THEN data_store ELSE e.store

\* sio.emit('data_update', {...}) returns; the with block ends.
OnMessage_Emit ==
    /\ mqttPc = "emit"
    /\ emitted' = [n |-> nmsgs, data |-> msg.items, store |-> data_store, live |-> TRUE]
    /\ data_lock' = "free"
    /\ mqttPc' = "idle"
    /\ msg' = NoMsg
    /\ UNCHANGED <<data_store, mqtt_client, conn, mainPc, httpPc, latest_data, nmsgs,
                   nodd, arrived>>
    /\ UNCHANGED convVars

(***************************************************************************)
(* index (flask_app.py 100-105), one request at a time                     *)
(***************************************************************************)
Index_Request ==
    /\ mainPc = "serving"
    /\ httpPc = "idle"
    /\ httpPc' = "wait"
    /\ UNCHANGED <<data_store, data_lock, mqtt_client, conn, mainPc, mqttPc, msg,
                   latest_data, emitted, nmsgs, nodd, arrived>>
    /\ UNCHANGED convVars

Index_Acquire ==
    /\ httpPc = "wait"
    /\ Acquirable(data_lock)
    /\ data_lock' = "http"
    /\ httpPc' = "locked"
    /\ UNCHANGED <<data_store, mqtt_client, conn, mainPc, mqttPc, msg, latest_data,
                   emitted, nmsgs, nodd, arrived>>
    /\ UNCHANGED convVars

\* latest_data = data_store.copy(); pretty_json = json.dumps(...)
Index_Copy ==
    /\ httpPc = "locked"
    /\ latest_data' = data_store
    /\ httpPc' = "copied"
    /\ UNCHANGED <<data_store, data_lock, mqtt_client, conn, mainPc, mqttPc, msg,
                   emitted, nmsgs, nodd, arrived>>
    /\ UNCHANGED convVars

\* The with block ends; render_template runs without the lock.
Index_Release ==
    /\ httpPc = "copied"
    /\ data_lock' = "free"
    /\ latest_data' = EmptyStore
    /\ httpPc' = "render"
    /\ UNCHANGED <<data_store, mqtt_client, conn, mainPc, mqttPc, msg, emitted, nmsgs,
                   nodd, arrived>>
    /\ UNCHANGED convVars

Index_Render ==
    /\ httpPc = "render"
    /\ httpPc' = "idle"
    /\ UNCHANGED <<data_store, data_lock, mqtt_client, conn, mainPc, mqttPc, msg,
                   latest_data, emitted, nmsgs, nodd, arrived>>
    /\ UNCHANGED convVars

DashNext ==
    \/ Connect_Try
    \/ Connect_Sleep
    \/ Connect_Return
    \/ Main_Serve
    \/ OnConnect
    \/ OnMessage_Begin
    \/ OnMessage_Acquire
    \/ OnMessage_Item
    \/ OnMessage_Pop
    \/ OnMessage_Status
    \/ OnMessage_Emit
    \/ Index_Request
    \/ Index_Acquire
    \/ Index_Copy
    \/ Index_Release
    \/ Index_Render

\* A fresh machine and a dashboard process about to start.
Init == ConvInit /\ DashInit

\* The provisioning script against one machine; the dashboard process is
\* not started.
Spec == Init /\ [][Next]_vars

\* The dashboard process; the provisioning script is not run.
DashSpec == Init /\ [][DashNext]_vars

(***************************************************************************)
(* Properties of the provisioning script (checked under Spec)              *)
(***************************************************************************)
\* The run in progress repeats a setup that ran to its end, with nothing
\* declined, failed or changed from outside since that setup began.
SecondSetup == run.repeat /\ run.mode = "setup" /\ dev = run.dev0

\* A managed file of the subsystem was written by a command of this run.
Rewritten(sub) ==
    \E i \in DOMAIN log : log[i].op \in {"mv", "tee"} /\ log[i].a \in SubFiles(sub)

Subsystems == {"wifi", "mosquitto", "vm", "nodered", "dashboard"}

\* C1: when setup is run twice in a row with the same desired state, the
\* second run finds every config file of every subsystem unchanged (it
\* rewrites none) and issues no service restart.
C1_Idempotent ==
    SecondSetup =>
        /\ \A sub \in Subsystems : ~Rewritten(sub)
        /\ \A i \in DOMAIN log : log[i].op # "restart"

\* C2: a restart command is issued for a service only if a config file of
\* its subsystem was found changed (rewritten, or changed in content) in
\* the same run.
C2_RestartOnlyOnChange ==
    (lastSvc.svc # "" /\ lastSvc.cmd = "restart") =>
        (lastSvc.changed \/ Rewritten(SubOf(lastSvc.svc)))

\* C3: when a config file of a subsystem was changed during the run and the
\* service is running at the service step, the command issued is restart.
C3_ChangeTriggersRestart ==
    (lastSvc.svc # "" /\ lastSvc.running /\ lastSvc.changed /\ Rewritten(SubOf(lastSvc.svc)))
        => lastSvc.cmd = "restart"

\* C4: a service found not running at its service step is given a start or
\* restart command, whether or not a config file changed in the run.
C4_StoppedIsStarted ==
    (lastSvc.svc # "" /\ ~lastSvc.running) =>
        /\ lastSvc.cmd \in {"start", "restart"}
        /\ \E i \in DOMAIN log : log[i] = [op |-> lastSvc.cmd, a |-> lastSvc.svc]

C4_Witness ==
    /\ run.n = 2
    /\ lastSvc = [svc |-> "victoria-metrics", running |-> FALSE, changed |-> FALSE,
                  cmd |-> "start"]
    /\ ~Rewritten("vm")
    /\ os.svc["victoria-metrics"].running

\* C5: the fingerprint of a missing file is None and equals the digest of
\* no content; update_file_if_changed called for a missing destination
\* issues the move and returns True (or raises when a command fails): it
\* never reports the destination up to date.
C5_MissingIsChanged ==
    /\ \A p, q \in Paths :
          ~os.files[p].exists =>
              /\ file_hash(os.files, p) = None
              /\ file_hash(os.files, p) # Sha256(os.files[q].content)
    /\ (mat.called /\ ~mat.before.exists) =>
          /\ mat.result \in {"true", "raised"}
          /\ mat.issued # << >>
          /\ mat.issued[1] = [op |-> "mv", a |-> mat.dest]
          /\ mat.result = "true" => (mat.after.exists /\ mat.after.content = mat.rendered)

C5_Witness ==
    /\ mat.called
    /\ ~mat.before.exists
    /\ mat.result = "true"
    /\ mat.after.exists
    /\ mat.after.content = mat.rendered
    /\ os.files[mat.dest] = mat.after

\* C6: update_file_if_changed returns True exactly when the destination is
\* missing or its content differs from the rendered content; when they are
\* equal it returns False, issues no move, chown or chmod, and the
\* destination keeps its content, owner and mode.
C6_ChangedIffDiffers ==
    mat.called =>
        LET same == mat.before.exists /\ mat.before.content = mat.rendered
        IN  /\ mat.result = "true" => ~same
            /\ ~same => mat.result \in {"true", "raised"}
            /\ same => /\ mat.result = "false"
                       /\ mat.issued = << >>
                       /\ mat.after = mat.before

C6_Witness ==
    /\ mat.called
    /\ mat.dest = dashboard_file
    /\ mat.result = "false"
    /\ mat.before.exists
    /\ mat.before.content = mat.rendered
    /\ mat.after.owner = "user"
    /\ os.files[dashboard_file] = mat.before

\* C11: when the binary is at its install path and executable, the artifact
\* step issues no command at all (no download, no extraction, no removal)
\* and leaves every file, the binary included, as it is.
C11_ArtifactIdempotent ==
    [][(/\ run.pc = "vm_bin"
        /\ os.files[vm_binary].exists
        /\ os.files[vm_binary].mode = "755")
       => (log' = log /\ os'.files = os.files /\ run'.pc \in {"vm_cfg", "nr_cleanup"})]_vars

C11_Witness ==
    /\ run.n = 2
    /\ run.pc = "vm_cfg"
    /\ os.files[vm_binary].exists
    /\ os.files[vm_binary].mode = "755"
    /\ ~os.files[vm_tar].exists
    /\ \A i \in DOMAIN log : log[i].op \notin {"wget", "tar", "rm", "rename"}

\* C12: a failing command that is not ignorable ends the run as failed, at
\* once: it is the last command issued (nothing of the same installer or
\* of a later one follows, nothing is undone), no step of the run is
\* enabled afterwards, and no reboot was issued before it.
C12_AbortOnFailure ==
    /\ (run.fault # NoFault) <=> (run.pc = "failed")
    /\ run.pc = "failed" =>
          /\ ~ENABLED RunStep
          /\ run.fault.op \notin {"load_config", "require"} =>
                (log # << >> /\ log[Len(log)] = run.fault)
          /\ \A i \in DOMAIN log : log[i].op = "reboot" => (i = Len(log) /\ run.fault.op = "reboot")

C12_Witness ==
    /\ run.pc = "failed"
    /\ run.mode = "setup"
    /\ run.fault.op = "npm install"
    /\ os.svc["mosquitto"].running
    /\ os.files[mosquitto_conf].exists
    /\ ~os.files[flows_file].exists
    /\ ~os.files[dashboard_file].exists
    /\ ~os.svc["sysohub-dashboard"].enabled

\* C13: when config.yml is missing, setup and update stop before any
\* command has been issued.
C13_NoMutationBeforeConfig ==
    (run.pc = "failed" /\ run.fault.op = "load_config") => log = << >>

\* C14: purge issues stop, disable and the two unit-file removals for each
\* of the seven services, then the removal of every package, then the
\* removal of the artifacts, then the moves of the config files, then the
\* reset of IP forwarding, whichever of these commands fail; only the
\* final reboot can end it as failed.
C14_PurgeBestEffort ==
    run.mode = "purge" =>
        /\ run.pc = "failed" => run.fault.op = "reboot"
        /\ run.pc \in {"purge_reboot", "done", "failed"} =>
              LET ns == Len(PurgeServices)
                  np == Len(PurgePackages)
                  base == 4 * ns + 2 * np
              IN  /\ \A i \in 1..ns :
                        /\ log[4 * i - 3] = [op |-> "stop", a |-> PurgeServices[i]]
                        /\ log[4 * i - 2] = [op |-> "disable", a |-> PurgeServices[i]]
                        /\ log[4 * i - 1] = [op |-> "rm", a |-> EtcUnit(PurgeServices[i])]
                        /\ log[4 * i] = [op |-> "rm", a |-> LibUnit(PurgeServices[i])]
                  /\ \A j \in 1..np :
                        /\ log[4 * ns + 2 * j - 1] = [op |-> "apt remove", a |-> PurgePackages[j]]
                        /\ log[4 * ns + 2 * j] = [op |-> "apt purge", a |-> PurgePackages[j]]
                  /\ log[base + 1] = [op |-> "rm", a |-> vm_binary]
                  /\ log[base + 2].op = "userdel"
                  /\ log[base + 3].op = "rm node-red"
                  /\ \E k \in 0..Len(PurgeConfigs) :
                        /\ \A i \in 1..k : log[base + 3 + i].op = "move aside"
                        /\ log[base + 4 + k].op = "sysctl ip_forward"
                        /\ log[base + 5 + k].op = "rm project"

C14_Witness ==
    /\ run.mode = "purge"
    /\ run.n = 2
    /\ run.pc = "done"
    /\ dev = 1
    /\ os.svc["mosquitto"].enabled
    /\ mosquitto_conf \in os.bak
    /\ ~os.files[mosquitto_conf].exists
    /\ ~os.ipfwd

\* The installer a step belongs to, in the order of setup and update; 0
\* before the first installer, 6 after the last.
Rank(pc) ==
    CASE pc \in {"perms", "load", "upgrade"} -> 0
      [] pc \in {"wifi_pkg", "wifi_stop", "wifi_cfg", "wifi_default", "wifi_hostname",
                 "wifi_ipfwd", "wifi_svc"} -> 1
      [] pc \in {"mosq_pkg", "mosq_cfg", "mosq_passwd", "mosq_svc"} -> 2
      [] pc \in {"vm_bin", "vm_rename", "vm_cfg", "vm_user", "vm_unit", "vm_svc"} -> 3
      [] pc \in {"nr_cleanup", "nr_install", "nr_flows", "nr_unit", "nr_svc"} -> 4
      [] pc \in {"dash_pkgs", "dash_file", "dash_index", "dash_unit", "dash_svc"} -> 5
      [] OTHER -> 6

\* C15: in setup and in update a step stays in its installer or moves to
\* the next one in the order access point, broker, metrics store, flow
\* engine, dashboard: never back, never past one.
C15_FixedOrder ==
    [][(/\ run.mode \in {"setup", "update"}
        /\ run'.n = run.n
        /\ run.pc # "failed"
        /\ run'.pc # "failed")
       => Rank(run'.pc) \in {Rank(run.pc), Rank(run.pc) + 1}]_vars

\* The place in the log of the first start command given to a service, 0
\* when there is none.
StartedAt(service) ==
    LET e == [op |-> "start", a |-> service]
    IN  IF \E i \in DOMAIN log : log[i] = e
        THEN CHOOSE i \in DOMAIN log : log[i] = e /\ \A j \in 1..(i - 1) : log[j] # e
        ELSE 0

C15_Witness ==
    /\ run.mode = "update"
    /\ run.pc = "done"
    /\ lastSvc.svc = "sysohub-dashboard"
    /\ 0 < StartedAt("hostapd")
    /\ StartedAt("hostapd") < StartedAt("mosquitto")
    /\ StartedAt("mosquitto") < StartedAt("victoria-metrics")
    /\ StartedAt("victoria-metrics") < StartedAt("nodered")
    /\ StartedAt("nodered") < StartedAt("sysohub-dashboard")

\* C19: when the archive holds neither expected name, the artifact step
\* fails before anything was extracted into /usr/local/bin.
C19_CheckBeforeExtract ==
    (run.pc = "failed" /\ run.fault = [op |-> "require", a |-> vm_binary]) =>
        /\ ~os.files[vm_other].exists
        /\ \A i \in DOMAIN log : log[i].op # "tar"

\* C20: a run that repeats a completed run of the same kind with nothing
\* changed in between does not rewrite /etc/default/hostapd or
\* /etc/mosquitto/passwd.
C20_InlineUpToDate ==
    (run.repeat /\ dev = run.dev0) =>
        \A i \in DOMAIN log : ~(log[i].op = "tee" /\ log[i].a \in {default_hostapd, passwd_file})

\* C22: in a run that repeats a completed run with nothing changed in
\* between, no step takes a running service down.
C22_NoStopWhenUnchanged ==
    [][(run.repeat /\ run'.n = run.n /\ dev' = run.dev0)
       => \A s \in Services : os.svc[s].running => os'.svc[s].running]_vars

\* A step of update in which the operator declines a prompt of an
\* installer: nothing is issued, nothing fails.
Declines ==
    /\ run.mode = "update"
    /\ run.pc \in {"wifi_pkg", "mosq_pkg", "vm_bin", "nr_cleanup", "dash_pkgs"}
    /\ dev' = dev + 1
    /\ log' = log
    /\ run'.pc # "failed"

\* C23: in update, a declined prompt of an installer leaves the machine as
\* it is and takes the run to the next installer.
C23_DeclineSkipsSubsystem ==
    [][Declines => (os' = os /\ Rank(run'.pc) = Rank(run.pc) + 1)]_vars

(***************************************************************************)
(* Properties of the dashboard process (checked under DashSpec)            *)
(***************************************************************************)
\* The last n elements of s, in order.
LastN(s, n) == IF Len(s) <= n THEN s ELSE SubSeq(s, Len(s) - n + 1, Len(s))

\* C7: bounded FIFO buffer.  Outside the instant between the append and the
\* pop, every key's buffer is exactly the last min(n, MAX_POINTS) of the n
\* points that arrived for the key, in arrival order; a key nothing arrived
\* for has no buffer or an empty one.
C7_BoundedFifo ==
    mqttPc # "pop" =>
        \A k \in Recognized :
            IF k \in DOMAIN data_store
            THEN data_store[k] = LastN(arrived[k], MAX_POINTS)
            ELSE arrived[k] = << >>

\* 55 points arrived for temperature, 50 are kept, and a point without a
\* timestamp (0) sits behind points with larger timestamps: arrival order,
\* not timestamp order.
C7_Witness ==
    /\ mqttPc = "idle"
    /\ Len(arrived["temperature"]) = 55
    /\ "temperature" \in DOMAIN data_store
    /\ Len(data_store["temperature"]) = MAX_POINTS
    /\ data_store["temperature"][1] = arrived["temperature"][6]
    /\ \E i \in 2..MAX_POINTS : data_store["temperature"][i].timestamp = 0

\* The sleeps of a connector that fails every time.
ExpectedSleeps == <<1, 2, 4, 8>>

\* C8: backoff sequence and termination of connect_mqtt_with_retry.  When
\* it returns None it has made exactly 5 attempts and slept 1, 2, 4, 8; when
\* it returns the client after attempt k it slept the first k-1 of these;
\* once it returns, no further attempt or sleep is possible.
C8_BackoffSequence ==
    /\ conn.tries <= 5
    /\ (conn.pc = "return" /\ conn.ret = "None") =>
           (conn.tries = 5 /\ conn.slept = ExpectedSleeps)
    /\ (conn.pc = "return" /\ conn.ret = "client") =>
           (conn.tries >= 1 /\ conn.slept = SubSeq(ExpectedSleeps, 1, conn.tries - 1))
    /\ conn.pc \in {"return", "gone"} =>
           (~ENABLED Connect_Try /\ ~ENABLED Connect_Sleep)

\* All five attempts failed and the connector is about to return None.
C8_Witness ==
    /\ conn.pc = "return"
    /\ conn.ret = "None"
    /\ conn.tries = 5
    /\ Len(conn.slept) = 4

\* C9: degraded mode.  With mqtt_client = None the process has not exited:
\* it is serving or about to start the server; the store is still empty and
\* no message was ever delivered to on_message.
C9_DegradedMode ==
    mqtt_client = "None" =>
        /\ mainPc \in {"main", "serving"}
        /\ mainPc = "main" => ENABLED Main_Serve
        /\ data_store = EmptyStore
        /\ nmsgs = 0
        /\ mqttPc = "off"
        /\ httpPc = "copied" => latest_data = EmptyStore

\* Without a connection, a request for '/' is being answered from the
\* (empty) store.
C9_Witness ==
    /\ mqtt_client = "None"
    /\ mainPc = "serving"
    /\ httpPc = "copied"
    /\ latest_data = EmptyStore

\* C10: the lock is released before the broadcast begins: on_message is
\* never collecting the status for sio.emit, or inside sio.emit, while it
\* holds data_lock.
C10_BroadcastOutsideLock ==
    ~(mqttPc \in {"status", "emit"} /\ data_lock = "mqtt")


\* C16: what was handed to the broadcast as the store stays what it was at
\* the hand-over, whatever is ingested later.
C16_SnapshotImmutable == emitted # NoEvent => Handed(emitted) = emitted.store

\* C17: a reader's copy of the store never holds a buffer of more than
\* MAX_POINTS points; a buffer of MAX_POINTS + 1 points exists only while
\* the MQTT thread holds the lock, between the append and the pop; the
\* reader copies only while it holds the lock.
C17_ReaderSeesBounded ==
    /\ \A k \in DOMAIN latest_data : Len(latest_data[k]) <= MAX_POINTS
    /\ \A k \in DOMAIN data_store :
          Len(data_store[k]) > MAX_POINTS =>
              /\ Len(data_store[k]) = MAX_POINTS + 1
              /\ data_lock = "mqtt"
              /\ mqttPc = "pop"
    /\ httpPc \in {"locked", "copied"} => data_lock = "http"

C17_Witness ==
    /\ httpPc = "copied"
    /\ "temperature" \in DOMAIN latest_data
    /\ Len(latest_data["temperature"]) = MAX_POINTS
    /\ Len(arrived["temperature"]) > MAX_POINTS
    /\ latest_data["temperature"] = LastN(arrived["temperature"], MAX_POINTS)

\* C18: the keys of the store are among the six recognized names, no key
\* is ever removed, and a step creates or changes the buffer of a key only
\* while the handler is at an item of the message with that key.
C18_OnlyRecognizedKeys ==
    [][/\ DOMAIN data_store' \subseteq {"temperature", "distance", "pH", "ORP", "TDS", "EC"}
       /\ DOMAIN data_store \subseteq DOMAIN data_store'
       /\ \A k \in DOMAIN data_store' :
             (k \notin DOMAIN data_store \/ data_store'[k] # data_store[k]) =>
                 /\ mqttPc \in {"loop", "pop"}
                 /\ msg.items[msg.i][1] = k]_vars

C18_Witness ==
    /\ mqttPc = "idle"
    /\ emitted.n >= 2
    /\ emitted.data[1][1] = "humidity"
    /\ DOMAIN data_store = {"temperature"}
    /\ Len(data_store["temperature"]) = emitted.n
    /\ data_store["temperature"][emitted.n].value = emitted.n


\* C21: when the handling of a message fails (the handler leaves the loop
\* by an exception), the store is what it was when the message arrived.
C21_AllOrNothing ==
    [][(mqttPc = "loop" /\ mqttPc' = "idle") => data_store' = msg.before]_vars

====
